---- MODULE Spec2Model ----
(***************************************************************************)
(* A model of poisson_tools.py: the Poisson spike-train generator          *)
(* (nextTime, poisson_generator, image_to_poisson_trains) and the AER      *)
(* codec (aerfile_to_spike, spike_to_aerfile).                             *)
(*                                                                         *)
(* Number representation.                                                  *)
(*  - Pixel intensities and firing rates are floats in the source.  They   *)
(*    are carried here as exact fixed-point integers with denominator      *)
(*    RateScale, chosen so that every division of the normalisation is     *)
(*    exact for the bounded inputs.  The float NaN is the value NaN.       *)
(*  - Times of the generator are integers (milliseconds); nextTime returns *)
(*    seconds carried as integer thousandths of a second.                  *)
(*  - Times of the codec are floats in milliseconds; the float nearest to  *)
(*    h/2000 is carried as the integer h (half-microseconds).              *)
(*  - uint32 values are carried as two 16-bit limbs [hi, lo].              *)
(***************************************************************************)
EXTENDS Integers, Sequences, FiniteSets, TLC

\* ---------------------------------------------------------------- bounds
MaxPixel == 1
MaxImages == 2
MaxFreq == 1
MaxDuration == 1
MaxSilence == 1
MaxDraw == 2
MaxSpikes == 1
MaxCalls == 2

\* image_height, image_width of the modelled calls
image_height == 1
image_width == 2

NumPixels == image_height * image_width

\* ------------------------------------------------ fixed-point helpers
RECURSIVE Gcd(_, _)
Gcd(a, b) == IF b = 0 THEN a ELSE Gcd(b, a % b)

RECURSIVE LcmUpTo(_)
LcmUpTo(n) == IF n <= 1 THEN 1 ELSE (LcmUpTo(n - 1) * n) \div Gcd(LcmUpTo(n - 1), n)

\* denominator of the fixed-point representation of intensities and rates
RateScale == LcmUpTo(NumPixels * MaxPixel)

\* the float NaN (result of 0.0/0.0)
NaN == -1

IsNaN(v) == v = NaN

\* a > 0 on floats: every comparison with NaN is False
FloatGt0(v) == (~IsNaN(v)) /\ v > 0

\* a + b on floats
FloatAdd(a, b) == IF IsNaN(a) \/ IsNaN(b) THEN NaN ELSE a + b

\* a / b on numpy floats: 0/0 = nan (a warning, no exception)
FloatDiv(a, b) ==
    IF IsNaN(a) \/ IsNaN(b) THEN NaN
    ELSE IF b = 0 THEN NaN
    ELSE (a * RateScale) \div b

\* a * max_freq, max_freq a whole number of Hz
FloatMulInt(a, m) == IF IsNaN(a) THEN NaN ELSE a * m

RECURSIVE SumSeq(_)
\* sum(image_list[i]): Python's builtin sum, left to right from 0
SumSeq(s) == IF s = <<>> THEN 0 ELSE FloatAdd(SumSeq(SubSeq(s, 1, Len(s) - 1)), s[Len(s)])

\* ------------------------------------------------ line 128
\* image_list[i] = image_list[i]/sum(image_list[i])*max_freq
NormaliseImage(img, mf) ==
    [p \in 1..Len(img) |-> FloatMulInt(FloatDiv(img[p], SumSeq(img)), mf)]

\* lines 122-128: the normalisation loop, which assigns into image_list
Normalise(imgs, mf) ==
    IF mf > 0 THEN [k \in 1..Len(imgs) |-> NormaliseImage(imgs[k], mf)]
    ELSE imgs

\* ------------------------------------------------ lines 81-87
\* nextTime(rateParameter) = -math.log(1.0 - random.random()) / rateParameter.
\* e is the draw -log(1-u) in thousandths; random.random() is in [0.0, 1.0),
\* so u = 0.0 and with it e = 0 can be drawn.  The result is in thousandths of
\* a second, rounded to the grid as the float quotient is rounded.
nextTime(rateParameter, e) == (e * RateScale) \div rateParameter

Draws == 0..MaxDraw

\* nextTime(rate)*1000.: thousandths of a second are milliseconds
next_isi_of(r, e) == nextTime(r, e)

\* the loop test with the end of the window included
WhileCond_Inclusive(lt, stop) == lt <= stop

\* line 103: while last_time < t_stop
WhileCond(lt, stop) == lt < stop

\* the window start without the silence between images
TStart_NoSilence(ii, dur, sil) == ii * dur

\* line 133
TStart(ii, dur, sil) == ii * (dur + sil)

\* line 134
TStop(start, dur) == start + dur

VARIABLES
    image_list,         \* the caller's array, shared with the callee
    image_before,       \* the array as it was when the running call was made
    max_freq, duration, silence,
    i, j,               \* loop indices of image_to_poisson_trains (0-based)
    pc,                 \* position of the running call
    caller,             \* who called poisson_generator: "direct" or "image"
    rate, t_start, t_stop,
    last_time, poisson_train,
    spike_source_data,
    ncalls,
    \* the codec
    image_size, jaer_size,      \* arguments of every codec call of the run
    file,                       \* the file file_name on disk
    spike_source_array_on,      \* arguments of the last spike_to_aerfile
    spike_source_array_off,
    ret,                        \* what the last spike_to_aerfile returned
    dec,                        \* what the last aerfile_to_spike returned
    before,                     \* file, ret and arguments before the last spike_to_aerfile
    cpc,                        \* the last codec call made
    \* the address round trip
    addr_x, addr_y, addr_pol,   \* the coordinates and polarity packed
    addr_word,                  \* the packed uint32
    addr_out,                   \* the unpacked coordinates and polarity bit
    apc

cvars == <<image_size, jaer_size, file, spike_source_array_on,
           spike_source_array_off, ret, dec, before, cpc>>

avars == <<addr_x, addr_y, addr_pol, addr_word, addr_out, apc>>

pvars == <<image_list, image_before, max_freq, duration, silence, i, j, pc,
           caller, rate, t_start, t_stop, last_time, poisson_train,
           spike_source_data, ncalls>>

vars == <<pvars, cvars, avars>>

Images == [1..NumPixels -> {p * RateScale : p \in 0..MaxPixel}]

ImageLists == UNION {[1..n -> Images] : n \in 1..MaxImages}

EmptyData == [p \in 1..NumPixels |-> <<>>]

PoissonStart ==
    /\ image_list \in ImageLists
    /\ image_before = image_list
    /\ max_freq = 0 /\ duration = 0 /\ silence = 0
    /\ i = 0 /\ j = 0
    /\ pc = "idle"
    /\ caller = "none"
    /\ rate = 0 /\ t_start = 0 /\ t_stop = 0
    /\ last_time = 0 /\ poisson_train = <<>>
    /\ spike_source_data = EmptyData
    /\ ncalls = 0

\* lines 99-102: entry of poisson_generator(r, start, stop)
GenEnter(r, start, stop, e) ==
    /\ rate' = r /\ t_start' = start /\ t_stop' = stop
    /\ poisson_train' = <<>>
    /\ IF FloatGt0(r)
       THEN /\ last_time' = next_isi_of(r, e) + start
            /\ pc' = "while"
       ELSE /\ e = 0
            /\ last_time' = 0
            /\ pc' = "gen_ret"

\* a direct call poisson_generator(rate, t_start, t_stop)
DirectRates == {0, RateScale, 2 * RateScale, NaN}

CallGenerator ==
    /\ UNCHANGED <<cvars, avars>>
    /\ pc = "idle" /\ ncalls < MaxCalls
    /\ \E r \in DirectRates, start \in 0..MaxDuration, stop \in 0..(MaxDuration + 1), e \in Draws :
          GenEnter(r, start, stop, e)
    /\ caller' = "direct"
    /\ ncalls' = ncalls + 1
    /\ UNCHANGED <<image_list, image_before, max_freq, duration, silence, i, j,
                   spike_source_data>>

\* lines 103-106: one iteration of the while loop
GenLoop ==
    /\ UNCHANGED <<cvars, avars>>
    /\ pc = "while"
    /\ WhileCond(last_time, t_stop)
    /\ poisson_train' = Append(poisson_train, last_time)
    /\ \E e \in Draws :
          /\ next_isi_of(rate, e) > 0 \/ Len(poisson_train) < MaxSpikes
          /\ last_time' = last_time + next_isi_of(rate, e)
    /\ UNCHANGED <<image_list, image_before, max_freq, duration, silence, i, j, pc,
                   caller, rate, t_start, t_stop, spike_source_data, ncalls>>

\* line 103 false: the loop ends
GenExit ==
    /\ UNCHANGED <<cvars, avars>>
    /\ pc = "while"
    /\ ~WhileCond(last_time, t_stop)
    /\ pc' = "gen_ret"
    /\ UNCHANGED <<image_list, image_before, max_freq, duration, silence, i, j,
                   caller, rate, t_start, t_stop, last_time, poisson_train,
                   spike_source_data, ncalls>>

\* the locals of a call are gone once the caller has its result
Forget ==
    /\ pc' = "idle" /\ caller' = "none"
    /\ max_freq' = 0 /\ duration' = 0 /\ silence' = 0
    /\ i' = 0 /\ j' = 0
    /\ rate' = 0 /\ t_start' = 0 /\ t_stop' = 0
    /\ last_time' = 0 /\ poisson_train' = <<>>
    /\ spike_source_data' = EmptyData
    /\ image_before' = image_list

\* line 107, returning to a direct caller
GenReturnDirect ==
    /\ UNCHANGED <<cvars, avars>>
    /\ pc = "gen_ret" /\ caller = "direct"
    /\ Forget
    /\ UNCHANGED <<image_list, ncalls>>

\* lines 132-136: the call of poisson_generator for image ii, pixel jj
ImagePixel(ii, jj, imgs, dur, sil, e) ==
    GenEnter(imgs[ii + 1][jj + 1], TStart(ii, dur, sil), TStop(TStart(ii, dur, sil), dur), e)

\* lines 122-136: image_to_poisson_trains is called on the caller's array
CallImageToPoissonTrains ==
    /\ UNCHANGED <<cvars, avars>>
    /\ pc = "idle" /\ ncalls < MaxCalls
    /\ \E mf \in 0..MaxFreq, dur \in 0..MaxDuration, sil \in 0..MaxSilence, e \in Draws :
          /\ max_freq' = mf /\ duration' = dur /\ silence' = sil
          /\ image_before' = image_list
          /\ image_list' = Normalise(image_list, mf)
          /\ ImagePixel(0, 0, image_list', dur, sil, e)
    /\ spike_source_data' = EmptyData
    /\ i' = 0 /\ j' = 0
    /\ caller' = "image"
    /\ ncalls' = ncalls + 1

\* lines 137-138 and the next iteration of the loops of lines 132, 135
GenReturnImage ==
    /\ UNCHANGED <<cvars, avars>>
    /\ pc = "gen_ret" /\ caller = "image"
    /\ spike_source_data' =
          IF poisson_train # <<>>
          THEN [spike_source_data EXCEPT ![j + 1] = @ \o poisson_train]
          ELSE spike_source_data
    /\ IF j + 1 < NumPixels
       THEN /\ j' = j + 1 /\ i' = i
            /\ \E e \in Draws : ImagePixel(i, j + 1, image_list, duration, silence, e)
       ELSE IF i + 1 < Len(image_list)
       THEN /\ j' = 0 /\ i' = i + 1
            /\ \E e \in Draws : ImagePixel(i + 1, 0, image_list, duration, silence, e)
       ELSE /\ pc' = "returned"
            /\ UNCHANGED <<i, j, rate, t_start, t_stop, last_time, poisson_train>>
    /\ UNCHANGED <<image_list, image_before, max_freq, duration, silence, caller, ncalls>>

\* line 140: the caller has the result and goes on
ImageReturn ==
    /\ UNCHANGED <<cvars, avars>>
    /\ pc = "returned"
    /\ Forget
    /\ UNCHANGED <<image_list, ncalls>>

NextPoisson ==
    \/ CallGenerator
    \/ GenLoop
    \/ GenExit
    \/ GenReturnDirect
    \/ CallImageToPoissonTrains
    \/ GenReturnImage
    \/ ImageReturn



\* ======================================================= the AER codec

\* ------------------------------------------------ uint32 as two limbs
RECURSIVE Pow2(_)
Pow2(n) == IF n = 0 THEN 1 ELSE 2 * Pow2(n - 1)

\* a limb is 16 bits
Limb == Pow2(16)

\* np.uint32(v) of an integer v: v modulo 2^32
U32(v) == [hi |-> (v \div Limb) % Limb, lo |-> v % Limb]

\* the value of a uint32 converted to float (astype(float))
U32ToInt(a) == a.hi * Limb + a.lo

RECURSIVE BitAnd(_, _)
\* a & b on non-negative integers
BitAnd(a, b) ==
    IF a = 0 \/ b = 0 THEN 0
    ELSE (a % 2) * (b % 2) + 2 * BitAnd(a \div 2, b \div 2)

\* a & b on uint32
U32And(a, b) == [hi |-> BitAnd(a.hi, b.hi), lo |-> BitAnd(a.lo, b.lo)]

\* a + b on uint32 arrays: the sum wraps modulo 2^32
U32Add(a, b) ==
    [hi |-> (a.hi + b.hi + ((a.lo + b.lo) \div Limb)) % Limb,
     lo |-> (a.lo + b.lo) % Limb]

\* a >> n on uint32, n <= 16
U32Shr(a, n) ==
    [hi |-> a.hi \div Pow2(n),
     lo |-> (a.lo \div Pow2(n)) + (a.hi % Pow2(n)) * Pow2(16 - n)]

\* v << n on the integers of the encoder
Shl(v, n) == v * Pow2(n)

\* ------------------------------------------------ lines 161-165
xmask == 254
ymask == 32512
xshift == 1
yshift == 8
polmask == 1

\* ------------------------------------------------ float milliseconds
\* A float time t (milliseconds) is carried as the integer h with
\* t = fl(h/2000.), h a number of half-microseconds; fl is rounding to the
\* nearest IEEE-754 double.  Distinct h are distinct floats in the same order.

\* (k * 2^s) mod m without leaving the small integers
RECURSIVE Pow2Mod(_, _)
Pow2Mod(s, m) == IF s = 0 THEN 1 % m ELSE (2 * Pow2Mod(s - 1, m)) % m

RECURSIVE FloorLog2(_)
FloorLog2(n) == IF n < 2 THEN 0 ELSE 1 + FloorLog2(n \div 2)

RECURSIVE BinadeUp(_, _)
\* the E >= 0 with 1000 * 2^E <= k < 1000 * 2^(E+1), for k >= 1000
BinadeUp(k, E) == IF 2000 * Pow2(E) <= k THEN BinadeUp(k, E + 1) ELSE E

RECURSIVE BinadeDown(_, _)
\* the n >= 0 with 1000 <= k * 2^n < 2000, for 1 <= k < 1000
BinadeDown(k, n) == IF k * Pow2(n) < 1000 THEN BinadeDown(k, n + 1) ELSE n

\* the binary exponent E of the float k/1000.
QuotExp(k) == IF k >= 1000 THEN BinadeUp(k, 0) ELSE 0 - BinadeDown(k, 0)

\* 1 when fl(fl(k/1000.) * 1000.) > k, else 0, for an integer k >= 0.
\* With s = 52 - E the quotient's mantissa is M = rne(k * 2^s / 1000); the
\* product 1000 * M differs from k * 2^s by delta in -500..500, and it rounds to
\* the double above k exactly when delta exceeds half the spacing of the
\* doubles at k, which is 2^(FloorLog2(k) - E) in the same unit.
RoundsAbove(k) ==
    IF k = 0 THEN 0
    ELSE LET s == 52 - QuotExp(k)
             n2 == ((k % 2000) * Pow2Mod(s, 2000)) % 2000
             r == n2 % 1000
             up == r > 500 \/ (r = 500 /\ n2 >= 1000)
             delta == IF up THEN 1000 - r ELSE 0 - r
         IN  IF 2 * delta > Pow2(FloorLog2(k) - QuotExp(k)) THEN 1 ELSE 0

\* line 232: np.ceil(t * 1000.) for the float t carried as h
CeilMsToUs(h) ==
    IF h % 2 = 1 THEN (h + 1) \div 2
    ELSE (h \div 2) + RoundsAbove(h \div 2)

\* line 158: AllTs.astype(float)/1000. for a timestamp of k microseconds
UsToMs(k) == 2 * k

\* ------------------------------------------------ address packing
\* line 239: np.uint32((x << 1) + (y << 1) * jaer_size + Polarity)
PackAddr(x, y, Polarity, jaer) == U32(Shl(x, 1) + Shl(y, 1) * jaer + Polarity)

\* the address left as read, the polarity bit not added
AddPol_Skipped(a, pol) == a

\* lines 168-169: pol = AllAddr & polmask; AllAddr = AllAddr + pol
AddPol(a, pol) == U32Add(a, pol)

\* lines 168-171
UnpackAddr(a) ==
    LET pol == U32And(a, U32(polmask))
        a2 == AddPol(a, pol)
    IN  [x |-> U32ToInt(U32Shr(U32And(a2, U32(xmask)), xshift)),
         y |-> U32ToInt(U32Shr(U32And(a2, U32(ymask)), yshift)),
         pol |-> U32ToInt(pol)]


\* ------------------------------------------------ the file
\* lines 241-253: the header spike_to_aerfile writes, one entry per line
\* (each ends with \r\n; the last carries datetime.now())
HeaderLines ==
    << "#!AER-DAT2.0",
       "# This is a raw AE data file - do not edit",
       "# Data format is int32 address, int32 timestamp (8 bytes total), repeated for each event",
       "# Timestamps tick is 1 us",
       "# Created <now>" >>

\* lines 153-154: for i in range(5): f.readline()
SkipLines == 5

NoFile == [exists |-> FALSE, lines |-> <<>>, data |-> <<>>]

\* ------------------------------------------------ spike_to_aerfile
\* line 206
num_neuron_of(size) == size * size

\* a set with more entries than neurons taken as well
IncludePolarity_AtLeast(arr, nn) == Len(arr) >= nn

\* lines 209 and 219: len(spike_source_array) == num_neuron
IncludePolarity(arr, nn) == Len(arr) = nn

RECURSIVE FlatTimes(_, _)
\* lines 210-213, 220-223: time_stamp.extend(spikes) for i in range(n)
FlatTimes(arr, n) == IF n = 0 THEN <<>> ELSE FlatTimes(arr, n - 1) \o arr[n]

RECURSIVE FlatIds(_, _)
\* lines 214, 224: neuron_id.extend([i]*len(spikes)) for i in range(n)
FlatIds(arr, n) ==
    IF n = 0 THEN <<>>
    ELSE FlatIds(arr, n - 1) \o [q \in 1..Len(arr[n]) |-> n - 1]

Repeat(v, n) == [q \in 1..n |-> v]

\* lines 225-228: the polarity list after the OFF events were appended
PolAfterOff(pol, total, num_on) ==
    IF Len(pol) > 0 THEN pol \o Repeat(-1, total - num_on)
    ELSE Repeat(-1, total)

RECURSIVE InsertByKey_Unstable(_, _, _)
\* the position before the entries of equal key: a sort that is not stable
InsertByKey_Unstable(sortedIdx, k, key) ==
    IF sortedIdx = <<>> THEN <<k>>
    ELSE IF key[Head(sortedIdx)] < key[k]
         THEN <<Head(sortedIdx)>> \o InsertByKey_Unstable(Tail(sortedIdx), k, key)
         ELSE <<k>> \o sortedIdx

\* the position of index k in a list sorted by key: after every entry whose
\* key is not larger (Python's sorted is stable)
RECURSIVE InsertByKey(_, _, _)
InsertByKey(sortedIdx, k, key) ==
    IF sortedIdx = <<>> THEN <<k>>
    ELSE IF key[Head(sortedIdx)] <= key[k]
         THEN <<Head(sortedIdx)>> \o InsertByKey(Tail(sortedIdx), k, key)
         ELSE <<k>> \o sortedIdx

RECURSIVE SortedIndex(_, _)
\* line 231: sorted(range(len(time_stamp)), key=time_stamp.__getitem__)
SortedIndex(key, n) ==
    IF n = 0 THEN <<>> ELSE InsertByKey(SortedIndex(key, n - 1), n, key)

\* line 265: return []
EmptyRet == [written |-> FALSE, ms |-> <<>>, AllTs |-> <<>>, neuron_id |-> <<>>, Polarity |-> <<>>]

\* lines 255-258: the address and the timestamp of each event, interleaved
Interleave(AllAddr, AllTs) ==
    [q \in 1..(2 * Len(AllTs)) |->
        IF q % 2 = 1 THEN AllAddr[(q + 1) \div 2] ELSE U32(AllTs[q \div 2])]

\* the header written also when there is no event
WhenEmpty_WritesHeader(f) ==
    [file |-> [exists |-> TRUE, lines |-> HeaderLines, data |-> <<>>], ret |-> EmptyRet]

\* lines 230, 263-265: what is done when time_stamp is empty
WhenEmpty(f) == [file |-> f, ret |-> EmptyRet]

\* lines 203-265.  The result is the file after the call and the value
\* returned; ms is the local np.array(time_stamp)[sort_index].
spike_to_aerfile(on, off, f, size, jaer) ==
    LET nn == num_neuron_of(size)
        onInc == IncludePolarity(on, nn)
        offInc == IncludePolarity(off, nn)
        ts_on == IF onInc THEN FlatTimes(on, nn) ELSE <<>>
        id_on == IF onInc THEN FlatIds(on, nn) ELSE <<>>
        num_on == Len(ts_on)
        pol_on == IF onInc THEN Repeat(0, num_on) ELSE <<>>
        time_stamp == IF offInc THEN ts_on \o FlatTimes(off, nn) ELSE ts_on
        neuron_id == IF offInc THEN id_on \o FlatIds(off, nn) ELSE id_on
        pol == IF offInc THEN PolAfterOff(pol_on, Len(time_stamp), num_on) ELSE pol_on
        sort_index == SortedIndex(time_stamp, Len(time_stamp))
        n == Len(time_stamp)
        ms == [q \in 1..n |-> time_stamp[sort_index[q]]]
        AllTs == [q \in 1..n |-> CeilMsToUs(ms[q])]
        Polarity == [q \in 1..n |-> pol[sort_index[q]]]
        ids == [q \in 1..n |-> neuron_id[sort_index[q]]]
        AllAddr == [q \in 1..n |->
                      PackAddr(ids[q] % size, ids[q] \div size, Polarity[q], jaer)]
    IN  IF n > 0
        THEN [file |-> [exists |-> TRUE, lines |-> HeaderLines,
                        data |-> Interleave(AllAddr, AllTs)],
              ret |-> [written |-> TRUE, ms |-> ms, AllTs |-> AllTs,
                       neuron_id |-> ids, Polarity |-> Polarity]]
        ELSE WhenEmpty(f)

\* ------------------------------------------------ aerfile_to_spike
\* one entry per row instead of one per pixel
dec_num_neuron_PerRow(size) == size

\* lines 174-175: the number of entries of each returned array
dec_num_neuron(size) == size * size

\* rows and columns exchanged
NeuronId_Transposed(x, y, size) == x * size + y

\* line 172
NeuronId(x, y, size) == y * size + x

RECURSIVE SelectTimes(_, _, _, _, _)
\* lines 177-183: the times of the events of neuron nid and polarity bit p,
\* in the order of the file
SelectTimes(data, size, nid, p, n) ==
    IF n = 0 THEN <<>>
    ELSE LET u == UnpackAddr(data[2 * n - 1])
             rest == SelectTimes(data, size, nid, p, n - 1)
         IN  IF NeuronId(u.x, u.y, size) = nid /\ u.pol = p
             THEN Append(rest, UsToMs(U32ToInt(data[2 * n])))
             ELSE rest

\* line 186: return [], []
MissingResult == [status |-> "ok", on |-> <<>>, off |-> <<>>]

\* lines 151-186
aerfile_to_spike(f, size) ==
    IF f.exists
    THEN IF Len(f.lines) = SkipLines /\ Len(f.data) % 2 = 0
         THEN [status |-> "ok",
               on |-> [q \in 1..dec_num_neuron(size) |->
                          SelectTimes(f.data, size, q - 1, 0, Len(f.data) \div 2)],
               off |-> [q \in 1..dec_num_neuron(size) |->
                          SelectTimes(f.data, size, q - 1, 1, Len(f.data) \div 2)]]
         \* text read as binary data or binary data read as text: no decoding
         ELSE [status |-> "malformed", on |-> <<>>, off |-> <<>>]
    ELSE MissingResult


\* ------------------------------------------------ codec calls
\* the float times the modelled trains are made of, in half-microseconds:
\* 0.0015, 2.007, 2.008 and 128.073 ms
TimeSeq == <<3, 4014, 4016, 256146>>

MaxEvents == 2
MaxImageSize == 2

\* the row stride the masks of aerfile_to_spike assume (1 << yshift = 2 * 128)
JaerSizes == {128}

\* an event is a number: polarity, then neuron, then index into TimeSeq
NumEvents(size) == 2 * (size * size + 1) * Len(TimeSeq)

EvPol(ev, size) == IF ev \div ((size * size + 1) * Len(TimeSeq)) = 0 THEN 0 ELSE -1

EvId(ev, size) == (ev \div Len(TimeSeq)) % (size * size + 1)

EvTime(ev) == (ev % Len(TimeSeq)) + 1

\* the ascending choices of at most MaxEvents distinct events; NumEvents(size)
\* stands for no event
EventChoices(size) ==
    {f \in [1..MaxEvents -> 0..NumEvents(size)] :
        \A q \in 1..(MaxEvents - 1) :
            f[q] < f[q + 1] \/ (f[q] = NumEvents(size) /\ f[q + 1] = NumEvents(size))}

\* the train set of length len holding the chosen events of polarity p, each
\* train in ascending time
TrainSet(f, size, p, len) ==
    [q \in 1..len |->
        SelectSeq([t \in 1..Len(TimeSeq) |-> t],
                  LAMBDA t : \E k \in 1..MaxEvents :
                      /\ f[k] < NumEvents(size)
                      /\ EvPol(f[k], size) = p /\ EvId(f[k], size) = q - 1
                      /\ EvTime(f[k]) = t)]

TrainTimes(ts) == [t \in 1..Len(ts) |-> TimeSeq[ts[t]]]

TrainSetMs(f, size, p, len) ==
    [q \in 1..len |-> TrainTimes(TrainSet(f, size, p, len)[q])]

\* the files that may be on disk before the first call: none, a header-only
\* file, one OFF event of neuron 0 at 1 us (address 0xFFFFFFFF)
InitFiles ==
    { NoFile,
      [exists |-> TRUE, lines |-> HeaderLines, data |-> <<>>],
      [exists |-> TRUE, lines |-> HeaderLines, data |-> <<U32(-1), U32(1)>>] }

NoBefore == [file |-> NoFile, ret |-> EmptyRet, on |-> <<>>, off |-> <<>>]

CodecStart ==
    /\ image_size \in 1..MaxImageSize
    /\ jaer_size \in JaerSizes
    /\ file \in InitFiles
    /\ spike_source_array_on = <<>> /\ spike_source_array_off = <<>>
    /\ ret = EmptyRet
    /\ dec = MissingResult
    /\ before = NoBefore
    /\ cpc = "start"

\* a call spike_to_aerfile(on, off, file_name, image_size, jaer_size)
DoEncode(on, off) ==
    LET r == spike_to_aerfile(on, off, file, image_size, jaer_size)
    IN  /\ before' = [file |-> file, ret |-> ret,
                      on |-> spike_source_array_on, off |-> spike_source_array_off]
        /\ spike_source_array_on' = on
        /\ spike_source_array_off' = off
        /\ file' = r.file
        /\ ret' = r.ret
        /\ UNCHANGED <<image_size, jaer_size, dec>>

\* the caller encodes trains of its own
Encode ==
    /\ UNCHANGED <<pvars, avars>>
    /\ cpc = "start"
    /\ \E f \in EventChoices(image_size),
          lon \in {image_size * image_size, image_size * image_size + 1},
          loff \in {image_size * image_size, image_size * image_size + 1} :
            DoEncode(TrainSetMs(f, image_size, 0, lon), TrainSetMs(f, image_size, -1, loff))
    /\ cpc' = "encoded"

\* a call aerfile_to_spike(file_name, image_size, jaer_size)
Decode ==
    /\ UNCHANGED <<pvars, avars>>
    /\ cpc \in {"start", "encoded", "reencoded"}
    /\ dec' = aerfile_to_spike(file, image_size)
    /\ cpc' = "decoded"
    /\ UNCHANGED <<image_size, jaer_size, file, spike_source_array_on,
                   spike_source_array_off, ret, before>>

\* the caller encodes the trains it has just decoded
ReEncode ==
    /\ UNCHANGED <<pvars, avars>>
    /\ cpc = "decoded" /\ dec.status = "ok"
    /\ DoEncode(dec.on, dec.off)
    /\ cpc' = "reencoded"

NextCodec ==
    \/ Encode
    \/ Decode
    \/ ReEncode

\* ------------------------------------------------ address round trip
\* x and y are 7 bits each (comments of lines 161-162)
CoordBits == 7

AddrStart ==
    /\ addr_x \in 0..(Pow2(CoordBits) - 1)
    /\ addr_y \in 0..(Pow2(CoordBits) - 1)
    /\ addr_pol \in {0, -1}
    /\ addr_word = U32(0)
    /\ addr_out = [x |-> 0, y |-> 0, pol |-> 0]
    /\ apc = "start"

Pack ==
    /\ UNCHANGED <<pvars, cvars>>
    /\ apc = "start"
    /\ \E jaer \in JaerSizes : addr_word' = PackAddr(addr_x, addr_y, addr_pol, jaer)
    /\ apc' = "packed"
    /\ UNCHANGED <<addr_x, addr_y, addr_pol, addr_out>>

Unpack ==
    /\ UNCHANGED <<pvars, cvars>>
    /\ apc = "packed"
    /\ addr_out' = UnpackAddr(addr_word)
    /\ apc' = "unpacked"
    /\ UNCHANGED <<addr_x, addr_y, addr_pol, addr_word>>

NextAddr ==
    \/ Pack
    \/ Unpack

\* ------------------------------------------------ specifications
PoissonParked ==
    /\ image_list = <<>> /\ image_before = <<>>
    /\ max_freq = 0 /\ duration = 0 /\ silence = 0
    /\ i = 0 /\ j = 0
    /\ pc = "parked"
    /\ caller = "none"
    /\ rate = 0 /\ t_start = 0 /\ t_stop = 0
    /\ last_time = 0 /\ poisson_train = <<>>
    /\ spike_source_data = EmptyData
    /\ ncalls = 0

CodecParked ==
    /\ image_size = 1 /\ jaer_size = 128
    /\ file = NoFile
    /\ spike_source_array_on = <<>> /\ spike_source_array_off = <<>>
    /\ ret = EmptyRet
    /\ dec = MissingResult
    /\ before = NoBefore
    /\ cpc = "parked"

AddrParked ==
    /\ addr_x = 0 /\ addr_y = 0 /\ addr_pol = 0
    /\ addr_word = U32(0)
    /\ addr_out = [x |-> 0, y |-> 0, pol |-> 0]
    /\ apc = "parked"

InitPoisson == PoissonStart /\ CodecParked /\ AddrParked

InitCodec == CodecStart /\ PoissonParked /\ AddrParked

InitAddr == AddrStart /\ PoissonParked /\ CodecParked

SpecPoisson == InitPoisson /\ [][NextPoisson]_vars

SpecCodec == InitCodec /\ [][NextCodec]_vars

SpecAddr == InitAddr /\ [][NextAddr]_vars


\* ======================================================= properties

Range(sq) == {sq[q] : q \in 1..Len(sq)}

NonDecreasing(sq) == \A a, b \in 1..Len(sq) : a < b => sq[a] <= sq[b]

StrictlyIncreasing(sq) == \A a, b \in 1..Len(sq) : a < b => sq[a] < sq[b]

InWindow(sq, start, stop) == \A q \in 1..Len(sq) : start <= sq[q] /\ sq[q] < stop

GeneratorReturns == pc = "gen_ret" /\ FloatGt0(rate) /\ t_start < t_stop

\* C1 as stated: for rate > 0 and t_start < t_stop the train returned by
\* poisson_generator is strictly increasing and lies in [t_start, t_stop).
C1_StrictlyIncreasingInWindow ==
    GeneratorReturns =>
        StrictlyIncreasing(poisson_train) /\ InWindow(poisson_train, t_start, t_stop)

\* C1 amended: for rate > 0 and t_start < t_stop the train returned by
\* poisson_generator is non-decreasing and lies in [t_start, t_stop); a time
\* equal to t_stop is never included.
C1_NonDecreasingInWindow ==
    GeneratorReturns =>
        NonDecreasing(poisson_train) /\ InWindow(poisson_train, t_start, t_stop)

C1_Witness ==
    /\ GeneratorReturns
    /\ Len(poisson_train) >= 3
    /\ poisson_train[1] = poisson_train[2]
    /\ poisson_train[2] < poisson_train[3]

ImageCallRuns == caller = "image" /\ pc \in {"while", "gen_ret"}

C9_ZeroSumIsReported ==
    ~ ( /\ pc = "returned"
        /\ max_freq > 0
        /\ \E k \in 1..Len(image_before) : SumSeq(image_before[k]) = 0 )

\* C10 as stated, on images of positive total intensity (where the
\* normalisation is defined): when image_to_poisson_trains returns, the
\* caller's image_list holds the intensities it held before the call.
C10_ImageListUnchanged ==
    ( /\ pc = "returned"
      /\ \A k \in 1..Len(image_before) : FloatGt0(SumSeq(image_before[k])) )
    => image_list = image_before


\* ------------------------------------------------ address round trip

\* C2: for x, y < 128 and either polarity, the address packed with
\* jaer_size = 128 as a uint32 is unpacked to the same x, the same y and the
\* same polarity (bit 0 for ON = 0, bit 1 for OFF = -1).
C2_AddressRoundTrip ==
    apc = "unpacked" =>
        /\ addr_out.x = addr_x
        /\ addr_out.y = addr_y
        /\ addr_out.pol = (IF addr_pol = 0 THEN 0 ELSE 1)

C2_Witness ==
    /\ apc = "unpacked"
    /\ addr_x = 0 /\ addr_y = 0 /\ addr_pol = -1
    /\ addr_word = [hi |-> 65535, lo |-> 65535]
    /\ addr_out = [x |-> 0, y |-> 0, pol |-> 1]

\* ------------------------------------------------ codec

Indices(r) == [q \in 1..Len(r.AllTs) |-> q]

\* the timestamps of the events of neuron id and polarity p in a returned
\* triple, in the order of the triple
GroupTs(r, id, p) ==
    LET idx == SelectSeq(Indices(r), LAMBDA q : r.neuron_id[q] = id /\ r.Polarity[q] = p)
    IN  [k \in 1..Len(idx) |-> r.AllTs[idx[k]]]

WholeUs(arr) == \A q \in 1..Len(arr) : \A k \in 1..Len(arr[q]) : arr[q][k] % 2 = 0

Neurons == 0..(image_size * image_size - 1)

\* the file re-encoded was written by spike_to_aerfile from train sets of
\* length image_size*image_size holding whole microseconds, and decoded
RoundTripDone ==
    /\ cpc = "reencoded"
    /\ before.ret.written
    /\ Len(before.on) = image_size * image_size
    /\ Len(before.off) = image_size * image_size
    /\ WholeUs(before.on) /\ WholeUs(before.off)

\* the decoded trains hold every event of the file at its neuron and polarity
DecodedWhereWritten ==
    /\ Len(spike_source_array_on) = image_size * image_size
    /\ Len(spike_source_array_off) = image_size * image_size
    /\ \A id \in Neurons :
          /\ spike_source_array_on[id + 1] =
                [k \in 1..Len(GroupTs(before.ret, id, 0)) |-> UsToMs(GroupTs(before.ret, id, 0)[k])]
          /\ spike_source_array_off[id + 1] =
                [k \in 1..Len(GroupTs(before.ret, id, -1)) |-> UsToMs(GroupTs(before.ret, id, -1)[k])]
    /\ Len(before.ret.AllTs) =
          Len(FlatTimes(spike_source_array_on, image_size * image_size))
          + Len(FlatTimes(spike_source_array_off, image_size * image_size))

Within(a, b, tol) == a - b <= tol /\ b - a <= tol

SameEventsUpTo(tol) ==
    /\ ret.written
    /\ Len(ret.AllTs) = Len(before.ret.AllTs)
    /\ \A id \in Neurons, p \in {0, -1} :
          /\ Len(GroupTs(ret, id, p)) = Len(GroupTs(before.ret, id, p))
          /\ \A k \in 1..Len(GroupTs(ret, id, p)) :
                Within(GroupTs(ret, id, p)[k], GroupTs(before.ret, id, p)[k], tol)

\* C3 as stated: decoding a written file returns every event to its neuron
\* and polarity, and re-encoding the decoded trains reproduces the same
\* (neuron_id, polarity, timestamp) triples.
C3_RoundTripExact == RoundTripDone => (DecodedWhereWritten /\ SameEventsUpTo(0))

\* C3 amended: decoding a written file returns every event to its neuron and
\* polarity, and re-encoding the decoded trains reproduces every event with
\* its neuron_id and polarity and a timestamp at most 1 microsecond later;
\* no event is lost or duplicated.
C3_RoundTripWithinOneUs == RoundTripDone => (DecodedWhereWritten /\ SameEventsUpTo(1))

C3_Witness ==
    /\ RoundTripDone
    /\ Len(ret.AllTs) >= 2
    /\ \E q \in 1..Len(ret.AllTs) : ret.Polarity[q] = 0
    /\ \E q \in 1..Len(ret.AllTs) : ret.Polarity[q] = -1
    /\ \E id \in Neurons, p \in {0, -1} : \E k \in 1..Len(GroupTs(ret, id, p)) :
          GroupTs(ret, id, p)[k] = GroupTs(before.ret, id, p)[k] + 1

Encoded == cpc \in {"encoded", "reencoded"}

\* C4 as stated: the timestamps written are non-decreasing and, among events
\* of equal timestamp, ON events precede OFF events and events of one
\* polarity are in ascending neuron id.
C4_StableByTimestamp ==
    (Encoded /\ ret.written) =>
        \A a, b \in 1..Len(ret.AllTs) : a < b =>
            /\ ret.AllTs[a] <= ret.AllTs[b]
            /\ ret.AllTs[a] = ret.AllTs[b] =>
                  /\ ~(ret.Polarity[a] = -1 /\ ret.Polarity[b] = 0)
                  /\ ret.Polarity[a] = ret.Polarity[b] => ret.neuron_id[a] <= ret.neuron_id[b]

\* C4 amended: the timestamps written are non-decreasing and, among events
\* of equal input time (the millisecond float before it is rounded up to
\* microseconds), ON events precede OFF events and events of one polarity
\* are in ascending neuron id.
C4_StableByInputTime ==
    (Encoded /\ ret.written) =>
        \A a, b \in 1..Len(ret.AllTs) : a < b =>
            /\ ret.AllTs[a] <= ret.AllTs[b]
            /\ ret.ms[a] <= ret.ms[b]
            /\ ret.ms[a] = ret.ms[b] =>
                  /\ ~(ret.Polarity[a] = -1 /\ ret.Polarity[b] = 0)
                  /\ ret.Polarity[a] = ret.Polarity[b] => ret.neuron_id[a] <= ret.neuron_id[b]

C4_Witness ==
    /\ Encoded /\ ret.written
    /\ \E a, b \in 1..Len(ret.AllTs) :
          /\ a < b /\ ret.ms[a] = ret.ms[b]
          /\ ret.Polarity[a] = 0 /\ ret.Polarity[b] = -1
          /\ ret.neuron_id[a] > ret.neuron_id[b]

\* C5 as stated: aerfile_to_spike returns two sets of image_size*image_size
\* entries each for every input, a missing file included.
C5_DecodedLengthAlways ==
    cpc = "decoded" =>
        /\ Len(dec.on) = image_size * image_size
        /\ Len(dec.off) = image_size * image_size

\* C5 amended: for a file that exists (with events or header-only)
\* aerfile_to_spike returns two sets of image_size*image_size entries each,
\* a neuron without events being an empty sequence; for a file that does not
\* exist it returns two empty lists (of length 0).
C5_DecodedLengthIfFileExists ==
    cpc = "decoded" =>
        IF file.exists
        THEN /\ dec.status = "ok"
             /\ DOMAIN dec.on = 1..(image_size * image_size)
             /\ DOMAIN dec.off = 1..(image_size * image_size)
             /\ file.data = <<>> =>
                   \A q \in 1..(image_size * image_size) : dec.on[q] = <<>> /\ dec.off[q] = <<>>
        ELSE dec.on = <<>> /\ dec.off = <<>>

C5_Witness ==
    /\ cpc = "decoded" /\ file.exists /\ image_size >= 2
    /\ Len(file.data) > 0
    /\ \E q \in 1..Len(dec.on) : dec.on[q] # <<>>
    /\ \E q \in 1..Len(dec.on) : dec.on[q] = <<>> /\ dec.off[q] = <<>>

\* how often the event (id, p, ts) is expected: once for each time of the
\* train of neuron id that rounds up to ts, if the set has the valid length
Expected(arr, id, ts) ==
    IF Len(arr) = image_size * image_size
    THEN Cardinality({k \in 1..Len(arr[id + 1]) : CeilMsToUs(arr[id + 1][k]) = ts})
    ELSE 0

Occurs(r, id, p, ts) ==
    Cardinality({q \in 1..Len(r.AllTs) :
                    r.neuron_id[q] = id /\ r.Polarity[q] = p /\ r.AllTs[q] = ts})

StampsOf(arr) ==
    UNION {{CeilMsToUs(arr[q][k]) : k \in 1..Len(arr[q])} : q \in 1..Len(arr)}

\* C7: a polarity's events are encoded exactly when its train set has length
\* image_size*image_size; a set of another length is skipped, the other
\* polarity's events are all encoded with their tag, and the three returned
\* lists have the same length.
C7_PolarityIncludedIffValidLength ==
    Encoded =>
        /\ Len(ret.AllTs) = Len(ret.neuron_id)
        /\ Len(ret.AllTs) = Len(ret.Polarity)
        /\ \A q \in 1..Len(ret.AllTs) :
              ret.neuron_id[q] \in Neurons /\ ret.Polarity[q] \in {0, -1}
        /\ \A id \in Neurons :
              \A ts \in Range(ret.AllTs) \cup StampsOf(spike_source_array_on)
                          \cup StampsOf(spike_source_array_off) :
                  /\ Occurs(ret, id, 0, ts) = Expected(spike_source_array_on, id, ts)
                  /\ Occurs(ret, id, -1, ts) = Expected(spike_source_array_off, id, ts)

C7_Witness ==
    /\ cpc = "encoded" /\ ret.written
    /\ Len(spike_source_array_on) # image_size * image_size
    /\ \E q \in 1..(image_size * image_size) : spike_source_array_on[q] # <<>>
    /\ Len(spike_source_array_off) = image_size * image_size
    /\ \A q \in 1..Len(ret.Polarity) : ret.Polarity[q] = -1

NoTimes(arr) == \A q \in 1..Len(arr) : arr[q] = <<>>

\* no event is given at all
NothingGiven == NoTimes(spike_source_array_on) /\ NoTimes(spike_source_array_off)

\* no event is included: each set is skipped or holds no time
NothingIncluded ==
    /\ Len(spike_source_array_on) = image_size * image_size => NoTimes(spike_source_array_on)
    /\ Len(spike_source_array_off) = image_size * image_size => NoTimes(spike_source_array_off)

\* C8 as stated: when the combined event set is empty, spike_to_aerfile
\* produces a header-only file and returns an empty-result indicator.
C8_EmptyWritesHeaderOnly ==
    (Encoded /\ NothingGiven) =>
        /\ ~ret.written
        /\ file.exists /\ file.lines = HeaderLines /\ file.data = <<>>

\* C8 amended: when no event is included, spike_to_aerfile writes nothing,
\* the file is as it was before the call (absent, or with its previous
\* content), and it returns the empty list instead of the triple.
C8_EmptyLeavesFileUntouched ==
    (Encoded /\ NothingIncluded) => (ret = EmptyRet /\ file = before.file)

C8_Witness ==
    /\ cpc = "encoded" /\ NothingGiven
    /\ Len(spike_source_array_on) = image_size * image_size
    /\ Len(spike_source_array_off) = image_size * image_size
    /\ ret = EmptyRet
    /\ file.exists /\ Len(file.data) > 0

====
